---- MODULE Spec2Model ----
(***************************************************************************)
(* The design patterns of creational_pattern.cpp, structural_pattern.cpp   *)
(* and behavioral_pattern.cpp as state machines: Composite, Visitor,       *)
(* Singleton, Flyweight, Memento, Iterator, Observer, State, Chain of      *)
(* Responsibility and Builder.  Each has its own variables and its own     *)
(* specification; main() calls none of the demo functions of main.cpp, so  *)
(* each specification is a caller of one pattern, leaving the rest alone.  *)
(*                                                                         *)
(* Objects are constructed up front: Init is the state right after the     *)
(* `new Composite()`, `new Leaf()`, `new Leaf2()` calls of a caller such   *)
(* as composite() in main.cpp, with every m_children vector empty.  A node *)
(* is named by its address, modelled as a number; Leaf::show and           *)
(* Leaf2::show print that address (`<< this`).                             *)
(***************************************************************************)
EXTENDS Integers, Sequences, FiniteSets, TLC

\* ------------------------------------------------------------------ bounds
NumComposites == 2      \* Composite objects the caller has constructed
MaxChildren == 3        \* entries held by all m_children vectors together
MaxCalls == 4           \* accept() calls of the visitor() caller
NumThreads == 3         \* threads calling Singleton::getInstance()
MaxGets == 2            \* getInstance() calls of each thread
MaxGetCats == 4         \* getCat() calls on the CatFactory
MaxGameCalls == 5       \* play/backup/undo calls of the memento() caller
MaxElements == 3        \* elements of the collection iterated over
MaxDepth == 4           \* frames of Composite::show a show() call is followed to
MaxSubscriptions == 3   \* entries of Publisher::m_subscribers

\* ------------------------------------------------------------ the objects
NULL == 0

\* The leaf objects the caller has constructed, by dynamic type: those of
\* composite() in main.cpp, `new Leaf()`, `new Leaf()`, `new Leaf2()`.
LeafObjects == <<"Leaf", "Leaf", "Leaf2">>

Composites == 1..NumComposites
Leaves == {NumComposites + i : i \in 1..Len(LeafObjects)}
Nodes == Composites \cup Leaves

\* The dynamic type of each object.
kind(n) ==
    IF n \in Composites THEN "Composite" ELSE LeafObjects[n - NumComposites]

\* The Element and Visitor objects of visitor() in main.cpp, by dynamic type.
Elements == {"ConcreteElement1", "ConcreteElement2"}
Visitors == {"ConcreteVisitor1", "ConcreteVisitor2"}

\* The textures asked of the CatFactory: those of flyweight() in main.cpp
\* and one more.
Textures == {"black", "white", "grey"}

\* The int values the collection may hold; 0 is what getNext() returns when
\* nothing is left.
ElementValues == {0, 1, 2}

\* The vectors a collection is constructed from.
Collections ==
    UNION {[1..n -> ElementValues] : n \in 0..MaxElements}

\* The Subscriber objects the caller has constructed, by dynamic type:
\* those of observer() in main.cpp and one more ConcreteSubscriber1.
SubscriberObjects ==
    <<"ConcreteSubscriber1", "ConcreteSubscriber2", "ConcreteSubscriber1">>
Subscribers == 1..Len(SubscriberObjects)

\* The arguments of notify(): those of observer() in main.cpp.
NotifyValues == {0, 1}

\* A State* value: nullptr, the address of a State object with its dynamic
\* type, or a value that is no null pointer and the address of no object.
nullptr == [kind |-> "nullptr", addr |-> 0]
Wild == [kind |-> "wild", addr |-> 0]

\* The slots of Player::m_states and the kind of state the transitions keep
\* in each; the call that leads to each kind and the message it writes.
Slots == {0, 1, 2}
Calls == {"play", "lock", "next"}
SlotOf(call) == CASE call = "play" -> 0 [] call = "lock" -> 1 [] call = "next" -> 2
KindAt(i) ==
    CASE i = 0 -> "PlayingState" [] i = 1 -> "LockState" [] i = 2 -> "ReadyState"

NoPlayerCall == [op |-> "none", from |-> nullptr, switches |-> 0, msgs |-> << >>]

\* The Handler objects the caller has constructed, by dynamic type: those
\* of chain_of_responsibility() in main.cpp and one more ConcreteHandler1.
HandlerObjects ==
    <<"BaseHandler", "ConcreteHandler1", "ConcreteHandler2", "ConcreteHandler1">>
Handlers == 1..Len(HandlerObjects)

\* The arguments of handle().
RequestValues == {0, 1}

NoRequest == [head |-> NULL, i |-> 0]

\* The threads that call Singleton::getInstance(), numbered from 1.
Threads == 1..NumThreads

VARIABLES
    m_children,     \* Composite::m_children of every Composite object
    stack,          \* show() calls in progress: one frame per Composite::show,
                    \*   `it` is the position of its for-loop iterator
    out,            \* lines written to std::cout by the show() call of the
                    \*   caller that is in progress or was made last
    shown,          \* the node that call was made on (NULL: none since the
                    \*   structure last changed)
    prev,           \* what the call before it wrote, kept when that call was
    prevRoot,       \*   on prevRoot, a node of the same shape (else NULL)
    lastOp,         \* the add/remove call the caller made last
    ret,            \* the vector the caller got from its last getChildren()
    expect,         \* what the caller has put into that vector: the children
                    \*   at the time of the call, then its own changes
    kept,           \* the children as the add/remove calls have left them
    pending,        \* the visit() call an accept() is making
    cout,           \* lines written to std::cout by the visitors
    accepted        \* the accept() calls made, as <<element, visitor>>

\* Singleton (creational_pattern.cpp)
VARIABLES
    m_instance,     \* Singleton::m_instance: the object it points to, or NULL
    m_mutex,        \* Singleton::m_mutex: the thread that holds it, or NULL
    pc,             \* where each thread is in getInstance()
    result,         \* the Ptr each thread got from its last getInstance()
    returned,       \* the values getInstance() has returned so far
    constructed,    \* how often the constructor Singleton() has run
    gets            \* the getInstance() calls each thread has made

\* Flyweight (structural_pattern.cpp)
VARIABLES
    m_cats,         \* CatFactory::m_cats: the cats, each with its address
                    \*   and its AbstractCat::m_texture
    handed          \* the getCat() calls made: texture asked, cat returned

\* Memento (behavioral_pattern.cpp)
VARIABLES
    game_m_data,    \* GameOriginator::m_data
    m_history,      \* GameCaretaker::m_history, the top of the stack last
    gameLog         \* the calls made: <<"play", value written>>,
                    \*   <<"backup", data saved>>, <<"undo", data restored>>

\* Iterator (behavioral_pattern.cpp)
VARIABLES
    coll_m_data,    \* ConcreteCollection::m_data
    m_i,            \* ConcreteIterator::m_i
    iterPc,         \* where the caller's while loop is: "none" before the
                    \*   iterator is created, "test", "body", "done"
    iterOut         \* what the getNext() calls returned, in call order

\* Observer (behavioral_pattern.cpp)
VARIABLES
    m_subscribers,  \* Publisher::m_subscribers
    pubCall,        \* the call the caller made last on the publisher
    pubOut          \* the update() calls that call made, in call order

\* State (behavioral_pattern.cpp, main.cpp)
VARIABLES
    player_m_state, \* Player::m_state
    m_states,       \* Player::m_states, slots 0, 1, 2
    m_states0,      \* what the slots held when the constructor returned
    playerPc,       \* "none" before the Player is constructed, "idle",
                    \*   "dispatch" while a play/lock/next call runs,
                    \*   "crashed" when the process has died
    playerCall,     \* the play/lock/next call made last: the state it was
                    \*   made in, the switches and messages it made
    stateObjects    \* the State objects constructed so far

\* Chain of Responsibility (behavioral_pattern.cpp)
VARIABLES
    m_next,         \* BaseHandler::m_next of every handler
    handling,       \* the handler whose handle() is about to run (NULL: no
                    \*   handle() call is in progress)
    request,        \* the handle(i) call the caller made last: head and i
    passed,         \* the handlers whose handle() has run for it, in order
    chainOut        \* the lines they wrote to std::cout

\* Builder (creational_pattern.cpp)
VARIABLES
    m_builder,      \* Director::m_builder: the builder it points to, or
                    \*   NoBuilder
    m_product,      \* Builder::m_product of every builder
    directorCall,   \* the call the caller made last on the director
    builderCalls,   \* the calls that call made on the builder, in call order
    directorOut,    \* the lines that call wrote to std::cout
    product         \* the Product3 the last getProduct() returned

\* Composite with callers that keep no contract (structural_pattern.cpp)
VARIABLES
    fault,          \* what went wrong in the show() call in progress or made
                    \*   last: "none", "null dereference"
    died            \* the process has died

treeVars == <<m_children, stack, out>>
obsVars == <<shown, prev, prevRoot, lastOp>>
retVars == <<ret, expect, kept>>
visitVars == <<pending, cout, accepted>>
compositeVars == <<treeVars, obsVars, retVars, visitVars>>
singletonVars == <<m_instance, m_mutex, pc, result, returned, constructed, gets>>
flyweightVars == <<m_cats, handed>>
mementoVars == <<game_m_data, m_history, gameLog>>
iteratorVars == <<coll_m_data, m_i, iterPc, iterOut>>
observerVars == <<m_subscribers, pubCall, pubOut>>
stateVars ==
    <<player_m_state, m_states, m_states0, playerPc, playerCall, stateObjects>>
chainVars == <<m_next, handling, request, passed, chainOut>>
builderVars ==
    <<m_builder, m_product, directorCall, builderCalls, directorOut, product>>
faultVars == <<fault, died>>
patternVars == <<singletonVars, flyweightVars, mementoVars, iteratorVars,
                 observerVars, stateVars, chainVars, builderVars, faultVars>>
vars == <<compositeVars, patternVars>>

\* Builder::m_builder is a Builder*; the two concrete builders, named by the
\* letter they put before every part.
Builders == {"A", "B"}
NoBuilder == "nullptr"

\* Product3(): the three std::string members are default-constructed.
Product3 == [m_partA |-> "", m_partB |-> "", m_partC |-> ""]
NoProduct == [m_partA |-> "none", m_partB |-> "none", m_partC |-> "none"]

NoOp == [op |-> "none", c |-> NULL, x |-> NULL, hit |-> FALSE]
NoRet == [of |-> NULL, alias |-> FALSE, data |-> << >>]
NoCall == [visitor |-> "none", overload |-> "none"]
NoPubCall == [op |-> "none", arg |-> NULL, hit |-> FALSE]

Init ==
    /\ m_children = [c \in Composites |-> << >>]
    /\ stack = << >>
    /\ out = << >>
    /\ shown = NULL
    /\ prev = << >>
    /\ prevRoot = NULL
    /\ lastOp = NoOp
    /\ ret = NoRet
    /\ expect = << >>
    /\ kept = [c \in Composites |-> << >>]
    /\ pending = NoCall
    /\ cout = << >>
    /\ accepted = << >>
    /\ m_instance = NULL
    /\ m_mutex = NULL
    /\ pc = [t \in Threads |-> "idle"]
    /\ result = [t \in Threads |-> NULL]
    /\ returned = {}
    /\ constructed = 0
    /\ gets = [t \in Threads |-> 0]
    /\ m_cats = << >>
    /\ handed = << >>
    /\ game_m_data = 0
    /\ m_history = << >>
    /\ gameLog = << >>
    /\ coll_m_data = << >>
    /\ m_i = 0
    /\ iterPc = "none"
    /\ iterOut = << >>
    /\ m_subscribers = << >>
    /\ pubCall = NoPubCall
    /\ pubOut = << >>
    /\ player_m_state = nullptr
    /\ m_states = [i \in Slots |-> nullptr]
    /\ m_states0 = [i \in Slots |-> nullptr]
    /\ playerPc = "none"
    /\ playerCall = NoPlayerCall
    /\ stateObjects = 0
    /\ m_next = [h \in Handlers |-> NULL]
    /\ handling = NULL
    /\ request = NoRequest
    /\ passed = << >>
    /\ chainOut = << >>
    /\ m_builder = NoBuilder
    /\ m_product = [b \in Builders |-> Product3]
    /\ directorCall = "none"
    /\ builderCalls = << >>
    /\ directorOut = << >>
    /\ product = NoProduct
    /\ fault = "none"
    /\ died = FALSE

\* ---------------------------------------------------------------- helpers
Range(s) == {s[i] : i \in 1..Len(s)}

RECURSIVE SumLen(_)
SumLen(S) ==
    IF S = {} THEN 0
    ELSE LET c == CHOOSE c \in S : TRUE
         IN Len(m_children[c]) + SumLen(S \ {c})

TotalChildren == SumLen(Composites)

\* Index of the first entry of s equal to x, Len(s) + 1 when there is none:
\* std::find(begin, end, x), end being one past the last entry.
RECURSIVE FindFrom(_, _, _)
FindFrom(s, x, i) ==
    IF i > Len(s) THEN i
    ELSE IF s[i] = x THEN i
    ELSE FindFrom(s, x, i + 1)

\* As std_find, but the last entry equal to x (a search from the back).
RECURSIVE FindBack(_, _, _)
FindBack(s, x, i) ==
    IF i < 1 THEN Len(s) + 1
    ELSE IF s[i] = x THEN i
    ELSE FindBack(s, x, i - 1)

std_findLast(s, x) == FindBack(s, x, Len(s))

std_find(s, x) == FindFrom(s, x, 1)

\* vector::erase(it): the entries before it and those after it, in order.
vector_erase(s, i) == SubSeq(s, 1, i - 1) \o SubSeq(s, i + 1, Len(s))

\* The nodes reached from the nodes S by following child entries at most k
\* times, and from x by following them any number of times (also when the
\* structure has cycles: a path without repetition passes each composite
\* at most once).
RECURSIVE ReachN(_, _)
ReachN(S, k) ==
    IF k = 0 THEN S
    ELSE ReachN(S \cup UNION {Range(m_children[c]) : c \in S \cap Composites},
                k - 1)

Reach(x) == ReachN({x}, NumComposites)

\* As Composite_add, but with a cycle check: an x from which c is reached
\* (c itself, or an ancestor of c) is refused.
Composite_addChecked(c, x) ==
    /\ m_children' = [m_children EXCEPT
                        ![c] = IF c \in Reach(x) THEN @ ELSE Append(@, x)]
    /\ UNCHANGED stack

\* As Composite_add, but an x that is a child already is not added again.
Composite_addUnique(c, x) ==
    /\ m_children' = [m_children EXCEPT
                        ![c] = IF x \in Range(@) THEN @ ELSE Append(@, x)]
    /\ UNCHANGED stack

\* ------------------------------------------------------ Composite::add
Composite_add(c, x) ==
    /\ m_children' = [m_children EXCEPT ![c] = Append(@, x)]
    /\ UNCHANGED stack

\* As Composite_remove, but without the test for end(): when x is not
\* found, the entry before end() goes.
Composite_removeUnchecked(c, x) ==
    LET it == std_find(m_children[c], x)
        at == IF it = Len(m_children[c]) + 1 THEN Len(m_children[c]) ELSE it
    IN /\ m_children' = [m_children EXCEPT ![c] = vector_erase(@, at)]
       /\ UNCHANGED stack

\* --------------------------------------------------- Composite::remove
Composite_remove(c, x) ==
    LET it == std_find(m_children[c], x)
    IN /\ IF it # Len(m_children[c]) + 1
          THEN m_children' = [m_children EXCEPT ![c] = vector_erase(@, it)]
          ELSE UNCHANGED m_children
       /\ UNCHANGED stack

\* As Composite_getChildren, but returning a reference to the member.
Composite_getChildrenRef(c) == [of |-> c, alias |-> TRUE, data |-> << >>]

\* ---------------------------------------------- Composite::getChildren
\* The function returns std::vector<Component*> by value: the caller gets a
\* vector of its own, holding a copy of the entries.  `alias` tells a vector
\* that is a copy (FALSE) from a reference to the member of `of` (TRUE).
Composite_getChildren(c) == [of |-> c, alias |-> FALSE, data |-> m_children[c]]

\* The entries the holder of vector r reads in it.
Read(r) == IF r.alias THEN m_children[r.of] ELSE r.data

\* The holder of vector r replaces its entries by s.
Write(r, s) ==
    IF r.alias
    THEN /\ m_children' = [m_children EXCEPT ![r.of] = s]
         /\ ret' = r
    ELSE /\ ret' = [r EXCEPT !.data = s]
         /\ UNCHANGED m_children

\* ------------------------------------------------------------- show()
\* The line a show() call writes before anything else.  Leaf::show and
\* Leaf2::show write their name and `this`, the address of the object.
Leaf_show(n) == <<"Leaf", n>>
Leaf2_show(n) == <<"Leaf2", n>>

\* As Composite_size, but counting the leaf children only.
Composite_sizeLeaves(n) ==
    <<"Size", Cardinality({i \in 1..Len(m_children[n]) :
                              kind(m_children[n][i]) # "Composite"})>>

\* As Composite_size, but writing the address of the composite.
Composite_sizeThis(n) == <<"Size", n>>

\* Composite::show writes "Size:" and m_children.size().
Composite_size(n) == <<"Size", Len(m_children[n])>>

Line(n) ==
    CASE kind(n) = "Leaf" -> Leaf_show(n)
      [] kind(n) = "Leaf2" -> Leaf2_show(n)
      [] kind(n) = "Composite" -> Composite_size(n)

\* As Frames, but the loop starts at the second child.
FramesFromSecond(n) ==
    IF kind(n) = "Composite" THEN << [node |-> n, it |-> 2] >> ELSE << >>

\* The frame a show() call opens: Composite::show starts its loop at
\* m_children.begin(); the leaves have no loop and return at once.
Frames(n) ==
    IF kind(n) = "Composite" THEN << [node |-> n, it |-> 1] >> ELSE << >>

\* Returning: a Composite::show whose iterator has reached m_children.end()
\* leaves its loop and returns to its caller's loop.
RECURSIVE Return(_)
Return(st) ==
    IF st = << >> THEN st
    ELSE LET top == st[Len(st)]
         IN IF top.it > Len(m_children[top.node])
            THEN Return(SubSeq(st, 1, Len(st) - 1))
            ELSE st

\* As show, but a composite without children returns before it writes.
showSkipEmpty(n, callers, written) ==
    /\ out' = IF kind(n) = "Composite" /\ m_children[n] = << >>
              THEN written
              ELSE Append(written, Line(n))
    /\ stack' = Return(callers \o Frames(n))
    /\ UNCHANGED m_children

\* As show, but the loop of the outermost Composite::show drops the last
\* child as it ends.
showConsuming(n, callers, written) ==
    LET st == Return(callers \o Frames(n))
    IN /\ out' = Append(written, Line(n))
       /\ stack' = st
       /\ m_children' =
            IF st = << >> /\ callers # << >>
            THEN [m_children EXCEPT
                    ![callers[1].node] = SubSeq(@, 1, Len(@) - 1)]
            ELSE m_children

\* As show, but a composite whose show() is in progress is not entered again.
showOnce(n, callers, written) ==
    /\ out' = Append(written, Line(n))
    /\ stack' = Return(callers \o
                        IF \E i \in 1..Len(callers) : callers[i].node = n
                        THEN << >>
                        ELSE Frames(n))
    /\ UNCHANGED m_children

\* n->show(), called with `callers` on the call stack after `written` was
\* written: virtual dispatch on the dynamic type of n.
show(n, callers, written) ==
    /\ out' = Append(written, Line(n))
    /\ stack' = Return(callers \o Frames(n))
    /\ UNCHANGED m_children

\* As ShowStep, but the loop runs from the last child to the first.
ShowStepReverse ==
    /\ stack # << >>
    /\ LET top == stack[Len(stack)]
           size == Len(m_children[top.node])
           child == m_children[top.node][size + 1 - top.it]
           callers == [stack EXCEPT ![Len(stack)].it = @ + 1]
       IN show(child, callers, out)
    /\ UNCHANGED <<obsVars, retVars, visitVars, patternVars>>

\* One turn of the for loop of the innermost Composite::show:
\* (*it)->show() and it++.  The frame keeps the position the loop resumes
\* at when the callee returns.
ShowStep ==
    /\ stack # << >>
    /\ LET top == stack[Len(stack)]
           child == m_children[top.node][top.it]
           callers == [stack EXCEPT ![Len(stack)].it = @ + 1]
       IN show(child, callers, out)
    /\ UNCHANGED <<obsVars, retVars, visitVars, patternVars>>

\* ------------------------------------------------------------ the caller
\* The shape of the subtree at n: variants and child order, no identities.
RECURSIVE Shape(_)
RECURSIVE ShapeSeq(_, _)
Shape(n) ==
    IF kind(n) = "Composite"
    THEN <<"(">> \o ShapeSeq(m_children[n], 1) \o <<")">>
    ELSE <<kind(n)>>
ShapeSeq(s, i) ==
    IF i > Len(s) THEN << >> ELSE Shape(s[i]) \o ShapeSeq(s, i + 1)

\* The nodes of the subtree at n.
RECURSIVE Subtree(_)
Subtree(n) ==
    IF kind(n) = "Composite"
    THEN {n} \cup UNION {Subtree(k) : k \in Range(m_children[n])}
    ELSE {n}

\* The caller keeps the structure free of cycles: add() does not check, the
\* design leaves it to the caller.
KeepsAcyclic(c, x) == c \notin Subtree(x)

Forget ==
    /\ out' = << >>
    /\ shown' = NULL
    /\ prev' = << >>
    /\ prevRoot' = NULL

CallAdd(c, x) ==
    /\ stack = << >>
    /\ TotalChildren < MaxChildren
    /\ KeepsAcyclic(c, x)
    /\ Composite_add(c, x)
    /\ lastOp' = [op |-> "add", c |-> c, x |-> x, hit |-> FALSE]
    /\ Forget
    /\ UNCHANGED <<retVars, visitVars, patternVars>>

CallRemove(c, x) ==
    /\ stack = << >>
    /\ Composite_remove(c, x)
    /\ lastOp' = [op |-> "remove", c |-> c, x |-> x,
                  hit |-> x \in Range(m_children[c])]
    /\ Forget
    /\ UNCHANGED <<retVars, visitVars, patternVars>>

CallShow(r) ==
    /\ stack = << >>
    /\ show(r, << >>, << >>)
    /\ shown' = r
    /\ IF shown # NULL /\ Shape(shown) = Shape(r)
       THEN prev' = out /\ prevRoot' = shown
       ELSE prev' = << >> /\ prevRoot' = NULL
    /\ lastOp' = NoOp
    /\ UNCHANGED <<retVars, visitVars, patternVars>>

\* ------------------------------------------- the caller of getChildren
EditAdd(c, x) ==
    /\ stack = << >>
    /\ TotalChildren < MaxChildren
    /\ Composite_add(c, x)
    /\ kept' = m_children'
    /\ UNCHANGED <<out, obsVars, ret, expect, visitVars, patternVars>>

EditRemove(c, x) ==
    /\ stack = << >>
    /\ Composite_remove(c, x)
    /\ kept' = m_children'
    /\ UNCHANGED <<out, obsVars, ret, expect, visitVars, patternVars>>

CallGetChildren(c) ==
    /\ stack = << >>
    /\ ret' = Composite_getChildren(c)
    /\ expect' = m_children[c]
    /\ UNCHANGED <<treeVars, obsVars, kept, visitVars, patternVars>>

\* The caller changes the vector it got: push_back(x), pop_back().
RetPushBack(x) ==
    /\ ret.of # NULL
    /\ Len(Read(ret)) < MaxChildren
    /\ Write(ret, Append(Read(ret), x))
    /\ expect' = Append(expect, x)
    /\ UNCHANGED <<stack, out, obsVars, kept, visitVars, patternVars>>

RetPopBack ==
    /\ ret.of # NULL
    /\ Read(ret) # << >>
    /\ Write(ret, SubSeq(Read(ret), 1, Len(Read(ret)) - 1))
    /\ expect' = SubSeq(expect, 1, Len(expect) - 1)
    /\ UNCHANGED <<stack, out, obsVars, kept, visitVars, patternVars>>

NextChildren ==
    \/ \E c \in Composites, x \in Leaves : EditAdd(c, x)
    \/ \E c \in Composites, x \in Leaves : EditRemove(c, x)
    \/ \E c \in Composites : CallGetChildren(c)
    \/ \E x \in Leaves : RetPushBack(x)
    \/ RetPopBack

SpecChildren == Init /\ [][NextChildren]_vars

\* ------------------------------------------------------------- Visitor
\* ConcreteVisitor1::visit(ConcreteElement1*) and visit(ConcreteElement2*).
ConcreteVisitor1_visit(overload) ==
    CASE overload = "ConcreteElement1" ->
             "ConcreteVisitor1 visit concrete element1"
      [] overload = "ConcreteElement2" ->
             "ConcreteVisitor1 visit concrete element2"

\* ConcreteVisitor2::visit(ConcreteElement1*) and visit(ConcreteElement2*).
ConcreteVisitor2_visit(overload) ==
    CASE overload = "ConcreteElement1" ->
             "ConcreteVisitor2 visit concrete element1"
      [] overload = "ConcreteElement2" ->
             "ConcreteVisitor2 visit concrete element2"

\* v->visit(e): the overload is fixed by the static type of e at the call,
\* the override by the dynamic type of v.
visit(v, overload) ==
    CASE v = "ConcreteVisitor1" -> ConcreteVisitor1_visit(overload)
      [] v = "ConcreteVisitor2" -> ConcreteVisitor2_visit(overload)

\* ConcreteElement1::accept: v->visit(this), `this` a ConcreteElement1*.
ConcreteElement1_accept(v) == [visitor |-> v, overload |-> "ConcreteElement1"]

\* As ConcreteElement2_accept, but calling the ConcreteElement1 overload.
ConcreteElement2_acceptAsElement1(v) ==
    [visitor |-> v, overload |-> "ConcreteElement1"]

\* ConcreteElement2::accept: v->visit(this), `this` a ConcreteElement2*.
ConcreteElement2_accept(v) == [visitor |-> v, overload |-> "ConcreteElement2"]

\* e->accept(v): the override of the dynamic type of e.
accept(e, v) ==
    CASE e = "ConcreteElement1" -> ConcreteElement1_accept(v)
      [] e = "ConcreteElement2" -> ConcreteElement2_accept(v)

CallAccept(e, v) ==
    /\ pending = NoCall
    /\ Len(accepted) < MaxCalls
    /\ pending' = accept(e, v)
    /\ accepted' = Append(accepted, <<e, v>>)
    /\ UNCHANGED <<cout, treeVars, obsVars, retVars, patternVars>>

VisitStep ==
    /\ pending # NoCall
    /\ cout' = Append(cout, visit(pending.visitor, pending.overload))
    /\ pending' = NoCall
    /\ UNCHANGED <<accepted, treeVars, obsVars, retVars, patternVars>>

NextVisitor ==
    \/ \E e \in Elements, v \in Visitors : CallAccept(e, v)
    \/ VisitStep

SpecVisitor == Init /\ [][NextVisitor]_vars

\* ------------------------------------------------- the caller of show()
Next ==
    \/ \E c \in Composites, x \in Nodes : CallAdd(c, x)
    \/ \E c \in Composites, x \in Nodes : CallRemove(c, x)
    \/ \E r \in Nodes : CallShow(r)
    \/ ShowStep

Spec == Init /\ [][Next]_vars

\* --------------------------------------- a caller that keeps no invariant
\* add() as any caller may call it: on every composite, with every node, a
\* node of its own subtree or the composite itself included.
CallAddAny(c, x) ==
    /\ stack = << >>
    /\ TotalChildren < MaxChildren
    /\ Composite_add(c, x)
    /\ lastOp' = [op |-> "add", c |-> c, x |-> x, hit |-> FALSE]
    /\ Forget
    /\ UNCHANGED <<retVars, visitVars, patternVars>>

NextUnchecked ==
    \/ \E c \in Composites, x \in Nodes : CallAddAny(c, x)
    \/ \E c \in Composites, x \in Nodes : CallRemove(c, x)

SpecUnchecked == Init /\ [][NextUnchecked]_vars

\* ---------------------------------------- a caller that adds null pointers
\* add() takes a Component* and tests nothing: a caller may pass nullptr.
\* This caller keeps the structure free of cycles.
Entries == Nodes \cup {NULL}

notFault ==
    <<retVars, visitVars, singletonVars, flyweightVars, mementoVars,
      iteratorVars, observerVars, stateVars, chainVars, builderVars>>

CallAddEntry(c, x) ==
    /\ stack = << >>
    /\ TotalChildren < MaxChildren
    /\ c \notin Reach(x)
    /\ Composite_add(c, x)
    /\ lastOp' = [op |-> "add", c |-> c, x |-> x, hit |-> FALSE]
    /\ Forget
    /\ fault' = "none"
    /\ UNCHANGED <<died, notFault>>

CallShowEntry(r) ==
    /\ stack = << >>
    /\ show(r, << >>, << >>)
    /\ shown' = r
    /\ prev' = << >>
    /\ prevRoot' = NULL
    /\ lastOp' = NoOp
    /\ fault' = "none"
    /\ UNCHANGED <<died, notFault>>

\* As showNull, but the loop tests the entry and passes over a null pointer.
showNullSkipped(callers) ==
    /\ stack' = Return(callers)
    /\ UNCHANGED <<m_children, out, fault, died>>

\* (*it)->show() on an entry that is nullptr: the virtual call reads the
\* vtable pointer of the object at address 0.  The behaviour is undefined:
\* the process dies inside the call, or the call comes back having written
\* nothing and the loop goes on.
showNull(callers) ==
    /\ fault' = "null dereference"
    /\ \/ died' = TRUE /\ UNCHANGED treeVars
       \/ /\ died' = FALSE
          /\ stack' = Return(callers)
          /\ UNCHANGED <<m_children, out>>

\* One turn of the for loop of the innermost Composite::show, the entry at
\* the iterator being any Component*.
ShowStepEntry ==
    /\ stack # << >>
    /\ ~died
    /\ LET top == stack[Len(stack)]
           child == m_children[top.node][top.it]
           callers == [stack EXCEPT ![Len(stack)].it = @ + 1]
       IN IF child = NULL
          THEN showNull(callers)
          ELSE show(child, callers, out) /\ UNCHANGED faultVars
    /\ UNCHANGED <<obsVars, notFault>>

NextNull ==
    \/ \E c \in Composites, x \in Entries : CallAddEntry(c, x)
    \/ \E r \in Nodes : CallShowEntry(r)
    \/ ShowStepEntry

SpecNull == Init /\ [][NextNull]_vars

\* ------------------------------------------- show() on any structure
\* Composite::show calls itself through (*it)->show() and nothing in it
\* bounds the depth of the calls.  The model follows a call down to
\* MaxDepth frames and no further.
\* One turn of the for loop of the innermost Composite::show.
ShowStepDeep ==
    /\ stack # << >>
    /\ Len(stack) < MaxDepth
    /\ LET top == stack[Len(stack)]
           child == m_children[top.node][top.it]
           callers == [stack EXCEPT ![Len(stack)].it = @ + 1]
       IN show(child, callers, out)
    /\ UNCHANGED <<obsVars, faultVars, notFault>>

NextCyclic ==
    \/ \E c \in Composites, x \in Nodes : CallAddAny(c, x)
    \/ \E r \in Nodes : CallShowEntry(r)
    \/ ShowStepDeep

SpecCyclic == Init /\ [][NextCyclic]_vars

\* ------------------------------------------------ calls run to completion
\* main() calls none of the demo functions; composite() and visitor() are
\* two callers, each working on objects of its own.  A run is a run of one of
\* them: the composite caller while no accept() was made, the visitor caller
\* while the structure is as constructed.  The composite caller builds its
\* structure with add() alone, as composite() does: every acyclic structure
\* is built that way.
NoAccept == accepted = << >> /\ pending = NoCall

NoComposite ==
    /\ m_children = [c \in Composites |-> << >>]
    /\ stack = << >>
    /\ shown = NULL
    /\ lastOp = NoOp

NextTerminates ==
    \/ \E c \in Composites, x \in Nodes : NoAccept /\ CallAdd(c, x)
    \/ \E r \in Nodes : NoAccept /\ CallShow(r)
    \/ NoAccept /\ ShowStep
    \/ \E e \in Elements, v \in Visitors : NoComposite /\ CallAccept(e, v)
    \/ NoComposite /\ VisitStep

\* Both callers are sequential code on one thread: a show() call that has
\* a loop turn to make makes it, an accept() that has its visit() call to
\* make makes it.
SpecTerminates ==
    Init /\ [][NextTerminates]_vars /\ WF_vars(ShowStep) /\ WF_vars(VisitStep)

\* ------------------------------------------------ Singleton::getInstance
\* The statements of getInstance(), one action each, run by thread t.  Every
\* other variable of the pattern is left as it is.
notSingleton ==
    <<compositeVars, flyweightVars, mementoVars, iteratorVars, observerVars,
      stateVars, chainVars,
      builderVars, faultVars>>

\* The caller enters getInstance().
getInstance_call(t) ==
    /\ pc[t] = "idle"
    /\ gets[t] < MaxGets
    /\ pc' = [pc EXCEPT ![t] = "lock"]
    /\ gets' = [gets EXCEPT ![t] = @ + 1]
    /\ UNCHANGED <<m_instance, m_mutex, result, returned, constructed>>
    /\ UNCHANGED notSingleton

\* As getInstance_lock, but without waiting for the mutex to be free (the
\* function without its lock_guard).
getInstance_lockNoWait(t) ==
    /\ pc[t] = "lock"
    /\ m_mutex' = t
    /\ pc' = [pc EXCEPT ![t] = "test"]
    /\ UNCHANGED <<m_instance, result, returned, constructed, gets>>
    /\ UNCHANGED notSingleton

\* std::lock_guard<std::mutex> lk(m_mutex): blocks until the mutex is free.
getInstance_lock(t) ==
    /\ pc[t] = "lock"
    /\ m_mutex = NULL
    /\ m_mutex' = t
    /\ pc' = [pc EXCEPT ![t] = "test"]
    /\ UNCHANGED <<m_instance, result, returned, constructed, gets>>
    /\ UNCHANGED notSingleton

\* if (nullptr == m_instance)
getInstance_test(t) ==
    /\ pc[t] = "test"
    /\ pc' = [pc EXCEPT ![t] = IF m_instance = NULL THEN "new" ELSE "return"]
    /\ UNCHANGED <<m_instance, m_mutex, result, returned, constructed, gets>>
    /\ UNCHANGED notSingleton

\* m_instance = Ptr(new Singleton()): the constructor runs, the k-th run
\* making the object k.
getInstance_new(t) ==
    /\ pc[t] = "new"
    /\ constructed' = constructed + 1
    /\ m_instance' = constructed + 1
    /\ pc' = [pc EXCEPT ![t] = "return"]
    /\ UNCHANGED <<m_mutex, result, returned, gets>>
    /\ UNCHANGED notSingleton

\* return m_instance: the value returned is copied from m_instance while
\* lk is still alive.
getInstance_return(t) ==
    /\ pc[t] = "return"
    /\ result' = [result EXCEPT ![t] = m_instance]
    /\ returned' = returned \cup {m_instance}
    /\ pc' = [pc EXCEPT ![t] = "unlock"]
    /\ UNCHANGED <<m_instance, m_mutex, constructed, gets>>
    /\ UNCHANGED notSingleton

\* ~lock_guard(): the mutex is released and the call is over.
getInstance_unlock(t) ==
    /\ pc[t] = "unlock"
    /\ m_mutex' = NULL
    /\ pc' = [pc EXCEPT ![t] = "idle"]
    /\ UNCHANGED <<m_instance, result, returned, constructed, gets>>
    /\ UNCHANGED notSingleton

NextSingleton ==
    \/ \E t \in Threads : getInstance_call(t)
    \/ \E t \in Threads : getInstance_lock(t)
    \/ \E t \in Threads : getInstance_test(t)
    \/ \E t \in Threads : getInstance_new(t)
    \/ \E t \in Threads : getInstance_return(t)
    \/ \E t \in Threads : getInstance_unlock(t)

SpecSingleton == Init /\ [][NextSingleton]_vars

\* ------------------------------------------------- CatFactory::getCat
notFlyweight ==
    <<compositeVars, singletonVars, mementoVars, iteratorVars, observerVars,
      stateVars, chainVars,
      builderVars, faultVars>>

\* The loop of getCat: the position of the first cat from position i on
\* whose getTexture() equals t, Len(m_cats) + 1 (end()) when there is none.
RECURSIVE CatFactory_search(_, _)
CatFactory_search(t, i) ==
    IF i > Len(m_cats) THEN i
    ELSE IF m_cats[i].m_texture = t THEN i
    ELSE CatFactory_search(t, i + 1)

\* As CatFactory_find, but only the cat at the back is compared.
CatFactory_findBack(t) ==
    IF m_cats # << >> /\ m_cats[Len(m_cats)].m_texture = t
    THEN Len(m_cats)
    ELSE Len(m_cats) + 1

\* for (it = m_cats.begin(); it != m_cats.end(); it++)
CatFactory_find(t) == CatFactory_search(t, 1)

\* new ConcreteCat(t): the k-th cat constructed is the object k; the factory
\* deletes no cat before its destructor runs.
ConcreteCat(t) == [addr |-> Len(m_cats) + 1, m_texture |-> t]

\* getCat(t): the cat found is returned; when none is found a new cat is
\* pushed to the back and returned.
CatFactory_getCat(t) ==
    LET it == CatFactory_find(t)
    IN IF it # Len(m_cats) + 1
       THEN /\ handed' = Append(handed, <<t, m_cats[it].addr>>)
            /\ UNCHANGED m_cats
       ELSE /\ m_cats' = Append(m_cats, ConcreteCat(t))
            /\ handed' = Append(handed, <<t, m_cats'[Len(m_cats')].addr>>)

CallGetCat(t) ==
    /\ Len(handed) < MaxGetCats
    /\ CatFactory_getCat(t)
    /\ UNCHANGED notFlyweight

NextFlyweight == \E t \in Textures : CallGetCat(t)

SpecFlyweight == Init /\ [][NextFlyweight]_vars

\* ------------------------------------ GameOriginator and GameCaretaker
notMemento ==
    <<compositeVars, singletonVars, flyweightVars, iteratorVars, observerVars,
      stateVars, chainVars,
      builderVars, faultVars>>

\* GameMemento(d) and GameMemento::getData.
GameMemento(d) == [m_data |-> d]
GameMemento_getData(m) == m.m_data

\* GameOriginator::save: a memento of the data as it is now.
GameOriginator_save == GameMemento(game_m_data)

\* GameOriginator::restore(m)
GameOriginator_restore(m) == game_m_data' = GameMemento_getData(m)

\* GameCaretaker::backup(m): m_history.push(m)
GameCaretaker_backup(m) == m_history' = Append(m_history, m)

\* As GameCaretaker_undo, but taking the memento at the bottom of the stack
\* (a queue in place of the stack).
GameCaretaker_undoOldest ==
    [m |-> m_history[1], m_history |-> SubSeq(m_history, 2, Len(m_history))]

\* GameCaretaker::undo on a stack that is not empty: the memento copied
\* from top(), returned, and the stack after pop().
GameCaretaker_undo ==
    [m |-> m_history[Len(m_history)],
     m_history |-> SubSeq(m_history, 1, Len(m_history) - 1)]

\* game.play(): writes m_data, then increments it.
CallPlay ==
    /\ Len(gameLog) < MaxGameCalls
    /\ gameLog' = Append(gameLog, <<"play", game_m_data>>)
    /\ game_m_data' = game_m_data + 1
    /\ UNCHANGED m_history
    /\ UNCHANGED notMemento

\* history.backup(game.save())
CallBackup ==
    /\ Len(gameLog) < MaxGameCalls
    /\ GameCaretaker_backup(GameOriginator_save)
    /\ gameLog' = Append(gameLog, <<"backup", game_m_data>>)
    /\ UNCHANGED game_m_data
    /\ UNCHANGED notMemento

\* game.restore(history.undo()); the caller makes the call only when it has
\* a backup left (top() and pop() of an empty std::stack are undefined).
CallUndo ==
    /\ Len(gameLog) < MaxGameCalls
    /\ m_history # << >>
    /\ LET undo == GameCaretaker_undo
       IN /\ m_history' = undo.m_history
          /\ GameOriginator_restore(undo.m)
    /\ gameLog' = Append(gameLog, <<"undo", game_m_data'>>)
    /\ UNCHANGED notMemento

NextMemento == CallPlay \/ CallBackup \/ CallUndo

SpecMemento == Init /\ [][NextMemento]_vars

\* ------------------------------------------------------ ConcreteIterator
notIterator ==
    <<compositeVars, singletonVars, flyweightVars, mementoVars, observerVars,
      stateVars, chainVars,
      builderVars, faultVars>>

\* As ConcreteIterator_hasMore, but false already at the last element.
ConcreteIterator_hasMoreButLast == m_i + 1 < Len(coll_m_data)

\* ConcreteIterator::hasMore: m_i < m_collection->m_data.size()
ConcreteIterator_hasMore == m_i < Len(coll_m_data)

\* ConcreteIterator::getNext: m_data[m_i++] when hasMore(), else 0.  m_i
\* counts from 0, the positions of a sequence from 1.
ConcreteIterator_getNext ==
    IF ConcreteIterator_hasMore
    THEN [value |-> coll_m_data[m_i + 1], m_i |-> m_i + 1]
    ELSE [value |-> 0, m_i |-> m_i]

\* new ConcreteCollection(data) and collection->createIterator().
CreateIterator(data) ==
    /\ iterPc = "none"
    /\ coll_m_data' = data
    /\ m_i' = 0
    /\ iterPc' = "test"
    /\ UNCHANGED iterOut
    /\ UNCHANGED notIterator

\* while (iter->hasMore())
LoopTest ==
    /\ iterPc = "test"
    /\ iterPc' = IF ConcreteIterator_hasMore THEN "body" ELSE "done"
    /\ UNCHANGED <<coll_m_data, m_i, iterOut>>
    /\ UNCHANGED notIterator

\* std::cout << iter->getNext() << std::endl
LoopBody ==
    /\ iterPc = "body"
    /\ LET next == ConcreteIterator_getNext
       IN /\ iterOut' = Append(iterOut, next.value)
          /\ m_i' = next.m_i
    /\ iterPc' = "test"
    /\ UNCHANGED coll_m_data
    /\ UNCHANGED notIterator

NextIterator ==
    \/ \E data \in Collections : CreateIterator(data)
    \/ LoopTest
    \/ LoopBody

\* The loop is sequential code: a test or a body that is due is run.
SpecIterator ==
    Init /\ [][NextIterator]_vars /\ WF_vars(LoopTest) /\ WF_vars(LoopBody)

\* -------------------------------------------------------------- Publisher
notObserver ==
    <<compositeVars, singletonVars, flyweightVars, mementoVars, iteratorVars,
      stateVars, chainVars,
      builderVars, faultVars>>

\* s->update(i): the override of the dynamic type of s writes its name and
\* i.  `on` is the object the call was made on.
ConcreteSubscriber1_update(s, i) == [on |-> s, line |-> <<"subscriber1", i>>]
ConcreteSubscriber2_update(s, i) == [on |-> s, line |-> <<"subscriber2", i>>]

update(s, i) ==
    CASE SubscriberObjects[s] = "ConcreteSubscriber1" ->
             ConcreteSubscriber1_update(s, i)
      [] SubscriberObjects[s] = "ConcreteSubscriber2" ->
             ConcreteSubscriber2_update(s, i)

\* Publisher::notify(i): the loop from begin() to end(), one update(i) per
\* entry.
Publisher_notify(i) ==
    /\ pubOut' = [k \in 1..Len(m_subscribers) |-> update(m_subscribers[k], i)]
    /\ UNCHANGED m_subscribers

\* Publisher::subscribe(s): push_back.
Publisher_subscribe(s) ==
    /\ m_subscribers' = Append(m_subscribers, s)
    /\ pubOut' = << >>

\* As Publisher_unsubscribe, but the loop goes on after an erase: every
\* entry that is s goes.
Publisher_unsubscribeAll(s) ==
    /\ m_subscribers' = SelectSeq(m_subscribers, LAMBDA e : e # s)
    /\ pubOut' = << >>

\* Publisher::unsubscribe(s): the loop stops at the first entry that is s,
\* erases it and returns; it runs to end() when there is none.
Publisher_unsubscribe(s) ==
    LET it == FindFrom(m_subscribers, s, 1)
    IN /\ IF it # Len(m_subscribers) + 1
          THEN m_subscribers' = vector_erase(m_subscribers, it)
          ELSE UNCHANGED m_subscribers
       /\ pubOut' = << >>

CallNotify(i) ==
    /\ Publisher_notify(i)
    /\ pubCall' = [op |-> "notify", arg |-> i, hit |-> FALSE]
    /\ UNCHANGED notObserver

CallSubscribe(s) ==
    /\ Len(m_subscribers) < MaxSubscriptions
    /\ Publisher_subscribe(s)
    /\ pubCall' = [op |-> "subscribe", arg |-> s, hit |-> FALSE]
    /\ UNCHANGED notObserver

CallUnsubscribe(s) ==
    /\ Publisher_unsubscribe(s)
    /\ pubCall' = [op |-> "unsubscribe", arg |-> s,
                   hit |-> s \in Range(m_subscribers)]
    /\ UNCHANGED notObserver

NextObserver ==
    \/ \E i \in NotifyValues : CallNotify(i)
    \/ \E s \in Subscribers : CallSubscribe(s)
    \/ \E s \in Subscribers : CallUnsubscribe(s)

SpecObserver == Init /\ [][NextObserver]_vars

\* ----------------------------------------------------------------- Player
notState ==
    <<compositeVars, singletonVars, flyweightVars, mementoVars, iteratorVars,
      observerVars, chainVars,
      builderVars, faultVars>>

\* The values an uninitialised State* may turn out to hold: Player() sets
\* m_state twice and never writes m_states, so every slot holds whatever was
\* in the memory `new Player()` got.  Reading it is undefined; a build reads
\* a null pointer or some other value.
Indeterminate == {nullptr, Wild}

\* Player::Player()
Player_Player(junk) ==
    /\ player_m_state' = nullptr
    /\ m_states' = junk
    /\ m_states0' = junk

\* new PlayingState(p), new LockState(p), new ReadyState(p): the k-th State
\* object constructed is the object k.
NewState(i) == [kind |-> KindAt(i), addr |-> stateObjects + 1]

\* PlayingState::play, LockState::lock, ReadyState::next: the message of
\* the state that handles the call itself.
PlayingState_play == "playing..."
LockState_lock == "lock..."
ReadyState_next == "next..."

Message(call) ==
    CASE call = "play" -> PlayingState_play
      [] call = "lock" -> LockState_lock
      [] call = "next" -> ReadyState_next

\* The six transitions of main.cpp (PlayingState::lock ... ReadyState::lock)
\* up to their last statement: fill slot i when getState(i) == nullptr, then
\* setState(getState(i)).  The last statement calls the player again.
Transition(i) ==
    /\ IF m_states[i] = nullptr
       THEN /\ m_states' = [m_states EXCEPT ![i] = NewState(i)]
            /\ stateObjects' = stateObjects + 1
       ELSE UNCHANGED <<m_states, stateObjects>>
    /\ player_m_state' = m_states'[i]

\* Player* player = new Player()
NewPlayer(junk) ==
    /\ playerPc = "none"
    /\ Player_Player(junk)
    /\ playerPc' = "idle"
    /\ UNCHANGED <<playerCall, stateObjects>>
    /\ UNCHANGED notState

\* The caller gives the player its first state, as state() in main.cpp:
\* state = new ...State(player), setState(i, state) when it registers the
\* state in its slot, and setState(state).
SetUp(i, register) ==
    /\ playerPc = "idle"
    /\ player_m_state = nullptr
    /\ stateObjects' = stateObjects + 1
    /\ m_states' = IF register THEN [m_states EXCEPT ![i] = NewState(i)]
                   ELSE m_states
    /\ player_m_state' = NewState(i)
    /\ UNCHANGED <<m_states0, playerPc, playerCall>>
    /\ UNCHANGED notState

\* player->play(), player->lock(), player->next(), made on a player that
\* has a current state.
CallPlayer(call) ==
    /\ playerPc = "idle"
    /\ player_m_state # nullptr
    /\ playerPc' = "dispatch"
    /\ playerCall' = [op |-> call, from |-> player_m_state,
                      switches |-> 0, msgs |-> << >>]
    /\ UNCHANGED <<player_m_state, m_states, m_states0, stateObjects>>
    /\ UNCHANGED notState

\* Player::play/lock/next: m_state->play() etc., the override of the
\* dynamic type of *m_state.  The state the call is named after writes its
\* message and returns; any other state makes its transition and calls the
\* player again.
Dispatch ==
    /\ playerPc = "dispatch"
    /\ player_m_state # Wild
    /\ IF player_m_state.kind = KindAt(SlotOf(playerCall.op))
       THEN /\ playerCall' = [playerCall EXCEPT
                                 !.msgs = Append(@, Message(playerCall.op))]
            /\ playerPc' = "idle"
            /\ UNCHANGED <<player_m_state, m_states, stateObjects>>
       ELSE /\ Transition(SlotOf(playerCall.op))
            /\ playerCall' = [playerCall EXCEPT !.switches = @ + 1]
            /\ UNCHANGED playerPc
    /\ UNCHANGED m_states0
    /\ UNCHANGED notState

\* m_state->play() etc. with m_state the address of no object: a virtual
\* call through it is undefined.  The process dies, or the call comes back
\* having written nothing.
DispatchWild ==
    /\ playerPc = "dispatch"
    /\ player_m_state = Wild
    /\ playerPc' \in {"crashed", "idle"}
    /\ UNCHANGED <<player_m_state, m_states, m_states0, playerCall,
                   stateObjects>>
    /\ UNCHANGED notState

NextState ==
    \/ \E junk \in [Slots -> Indeterminate] : NewPlayer(junk)
    \/ \E i \in Slots, register \in BOOLEAN : SetUp(i, register)
    \/ \E call \in Calls : CallPlayer(call)
    \/ Dispatch
    \/ DispatchWild

SpecState == Init /\ [][NextState]_vars

\* ------------------------------------------------------------- Handlers
notChain ==
    <<compositeVars, singletonVars, flyweightVars, mementoVars, iteratorVars,
      observerVars, stateVars,
      builderVars, faultVars>>

\* What one handle(i) invocation on h does: the lines it writes and the
\* handler it calls handle(i) on next (NULL: it returns without a call).

\* BaseHandler::handle: forwards when m_next is not null.
BaseHandler_handle(h) == [lines |-> << >>, to |-> m_next[h]]

ConcreteHandler1_canHandle == TRUE
ConcreteHandler2_canHandle == TRUE

\* ConcreteHandler1::handle
ConcreteHandler1_handle(h) ==
    IF ConcreteHandler1_canHandle
    THEN [lines |-> <<"handler1">>, to |-> BaseHandler_handle(h).to]
    ELSE [lines |-> << >>, to |-> NULL]

\* As ConcreteHandler2_handle, but without the call of BaseHandler::handle.
ConcreteHandler2_handleNoForward(h) ==
    IF ConcreteHandler2_canHandle
    THEN [lines |-> <<"handler2">>, to |-> NULL]
    ELSE [lines |-> << >>, to |-> NULL]

\* ConcreteHandler2::handle
ConcreteHandler2_handle(h) ==
    IF ConcreteHandler2_canHandle
    THEN [lines |-> <<"handler2">>, to |-> BaseHandler_handle(h).to]
    ELSE [lines |-> << >>, to |-> NULL]

\* h->handle(i): the override of the dynamic type of h.
handle(h) ==
    CASE HandlerObjects[h] = "BaseHandler" -> BaseHandler_handle(h)
      [] HandlerObjects[h] = "ConcreteHandler1" -> ConcreteHandler1_handle(h)
      [] HandlerObjects[h] = "ConcreteHandler2" -> ConcreteHandler2_handle(h)

\* The handlers reached from h by following m_next, h first.
RECURSIVE Links(_)
Links(h) == IF h = NULL THEN << >> ELSE <<h>> \o Links(m_next[h])

\* h->setNext(n), n a handler or nullptr.  The caller links its handlers
\* into chains: it makes no handler reachable from itself.
CallSetNext(h, n) ==
    /\ handling = NULL
    /\ h \notin Range(Links(n))
    /\ m_next' = [m_next EXCEPT ![h] = n]
    /\ request' = NoRequest
    /\ passed' = << >>
    /\ chainOut' = << >>
    /\ UNCHANGED handling
    /\ UNCHANGED notChain

\* head->handle(i), called by the caller.
CallHandle(head, i) ==
    /\ handling = NULL
    /\ handling' = head
    /\ request' = [head |-> head, i |-> i]
    /\ passed' = << >>
    /\ chainOut' = << >>
    /\ UNCHANGED m_next
    /\ UNCHANGED notChain

\* One handle(i) invocation, up to the call it makes on the next handler or
\* to its return (every caller up the chain returns with it: none has a
\* statement left after its call).
HandleStep ==
    /\ handling # NULL
    /\ passed' = Append(passed, handling)
    /\ chainOut' = chainOut \o handle(handling).lines
    /\ handling' = handle(handling).to
    /\ UNCHANGED <<m_next, request>>
    /\ UNCHANGED notChain

NextChain ==
    \/ \E h \in Handlers, n \in Handlers \cup {NULL} : CallSetNext(h, n)
    \/ \E head \in Handlers, i \in RequestValues : CallHandle(head, i)
    \/ HandleStep

\* handle() is sequential code: an invocation that is due runs.
SpecChain == Init /\ [][NextChain]_vars /\ WF_vars(HandleStep)

\* -------------------------------------------------------------- Builder
notBuilder ==
    <<compositeVars, singletonVars, flyweightVars, mementoVars, iteratorVars,
      observerVars, stateVars, chainVars, faultVars>>

\* Product3::setPartA, setPartB, setPartC.
Product3_setPart(prod, part, a) ==
    CASE part = "A" -> [prod EXCEPT !.m_partA = a]
      [] part = "B" -> [prod EXCEPT !.m_partB = a]
      [] part = "C" -> [prod EXCEPT !.m_partC = a]

\* ConcreteBuilderA::buildPartA, buildPartB, buildPartC:
\* m_product.setPartX("A" + p).
ConcreteBuilderA_buildPart(prod, part, p) ==
    Product3_setPart(prod, part, "A" \o p)

\* ConcreteBuilderB::buildPartA, buildPartB, buildPartC:
\* m_product.setPartX("B" + p).
ConcreteBuilderB_buildPart(prod, part, p) ==
    Product3_setPart(prod, part, "B" \o p)

\* m_builder->buildPartX(p): the override of the dynamic type of the builder.
buildPart(b, prod, part, p) ==
    CASE b = "A" -> ConcreteBuilderA_buildPart(prod, part, p)
      [] b = "B" -> ConcreteBuilderB_buildPart(prod, part, p)

\* The product of builder b after the calls from the i-th on, made in order.
RECURSIVE Build(_, _, _, _)
Build(b, prod, calls, i) ==
    IF i > Len(calls) THEN prod
    ELSE Build(b, buildPart(b, prod, calls[i][1], calls[i][2]), calls, i + 1)

\* As Director_createProduct, but part C is built first and part A last.
Director_createProductCBA == << <<"C", "2">>, <<"B", "1">>, <<"A", "0">> >>

\* The builder calls of Director::createProduct and of
\* Director::createProduct2, in statement order.
Director_createProduct == << <<"A", "0">>, <<"B", "1">>, <<"C", "2">> >>

Director_createProduct2 ==
    << <<"A", "great">>, <<"B", "great">>, <<"C", "great">> >>

\* The body the two functions share: the test for nullptr, the report and
\* the return, or the three calls.
Director_create(calls) ==
    IF m_builder = NoBuilder
    THEN /\ directorOut' = <<"without builder">>
         /\ builderCalls' = << >>
         /\ UNCHANGED m_product
    ELSE /\ directorOut' = << >>
         /\ builderCalls' = calls
         /\ m_product' = [m_product EXCEPT
                            ![m_builder] = Build(m_builder, @, calls, 1)]

\* Director::getProduct: Product3() without a builder, else the copy that
\* Builder::getProduct returns.
Director_getProduct ==
    IF m_builder = NoBuilder
    THEN /\ directorOut' = <<"without builder">>
         /\ builderCalls' = << >>
         /\ product' = Product3
    ELSE /\ directorOut' = << >>
         /\ builderCalls' = << <<"getProduct">> >>
         /\ product' = m_product[m_builder]

CallSetBuilder(b) ==
    /\ m_builder' = b
    /\ directorCall' = "setBuilder"
    /\ builderCalls' = << >>
    /\ directorOut' = << >>
    /\ UNCHANGED <<m_product, product, notBuilder>>

CallCreateProduct ==
    /\ Director_create(Director_createProduct)
    /\ directorCall' = "createProduct"
    /\ UNCHANGED <<m_builder, product, notBuilder>>

CallCreateProduct2 ==
    /\ Director_create(Director_createProduct2)
    /\ directorCall' = "createProduct2"
    /\ UNCHANGED <<m_builder, product, notBuilder>>

CallGetProduct ==
    /\ Director_getProduct
    /\ directorCall' = "getProduct"
    /\ UNCHANGED <<m_builder, m_product, notBuilder>>

NextBuilder ==
    \/ \E b \in Builders \cup {NoBuilder} : CallSetBuilder(b)
    \/ CallCreateProduct
    \/ CallCreateProduct2
    \/ CallGetProduct

SpecBuilder == Init /\ [][NextBuilder]_vars

\* ======================================================================
\* Properties
\* ======================================================================
Done == shown # NULL /\ stack = << >>

IsPrefix(s, t) == Len(s) <= Len(t) /\ SubSeq(t, 1, Len(s)) = s

\* How often e occurs in the sequence s.
Occ(s, e) == Cardinality({i \in 1..Len(s) : s[i] = e})

\* The pre-order depth-first linearization of the subtree at n: a node
\* before its children, the children in insertion order; a composite stands
\* for the count of its immediate children, a leaf for its variant and address.
RECURSIVE Preorder(_)
RECURSIVE PreorderAll(_, _)
Preorder(n) ==
    IF kind(n) = "Composite"
    THEN << <<"Size", Len(m_children[n])>> >> \o PreorderAll(m_children[n], 1)
    ELSE << <<kind(n), n>> >>
PreorderAll(s, i) ==
    IF i > Len(s) THEN << >> ELSE Preorder(s[i]) \o PreorderAll(s, i + 1)

\* C1: show() on the root of an acyclic structure writes the pre-order
\* depth-first linearization of the subtree: the count of immediate children
\* of a composite first, then each child in insertion order, recursively.
\* While the call runs, what it has written is a prefix of that.
C1_ShowIsPreorder ==
    shown # NULL =>
        IF stack = << >>
        THEN out = Preorder(shown)
        ELSE IsPrefix(out, Preorder(shown))

\* A root holding a Leaf and a composite that holds a Leaf2 has been shown.
C1_Witness ==
    \E r \in Composites, c \in Composites, a \in Leaves, b \in Leaves :
        /\ Done /\ shown = r
        /\ kind(a) = "Leaf" /\ kind(b) = "Leaf2"
        /\ m_children[r] = <<a, c>>
        /\ m_children[c] = <<b>>
        /\ out = << <<"Size", 2>>, <<"Leaf", a>>, <<"Size", 1>>, <<"Leaf2", b>> >>

\* The line the claim says each (element, visitor) pair writes.
HandlerOf(e, v) ==
    CASE e = "ConcreteElement1" /\ v = "ConcreteVisitor1" ->
             "ConcreteVisitor1 visit concrete element1"
      [] e = "ConcreteElement1" /\ v = "ConcreteVisitor2" ->
             "ConcreteVisitor2 visit concrete element1"
      [] e = "ConcreteElement2" /\ v = "ConcreteVisitor1" ->
             "ConcreteVisitor1 visit concrete element2"
      [] e = "ConcreteElement2" /\ v = "ConcreteVisitor2" ->
             "ConcreteVisitor2 visit concrete element2"

\* C2: every accept(visitor) call runs exactly one handler, the one of that
\* visitor for that element variant: the handlers that have run are, call by
\* call, those of the (element, visitor) pairs of the accept() calls made,
\* and only the call in progress has not run its handler yet.
C2_DoubleDispatch ==
    /\ Len(cout) = Len(accepted) - (IF pending = NoCall THEN 0 ELSE 1)
    /\ \A i \in 1..Len(cout) : cout[i] = HandlerOf(accepted[i][1], accepted[i][2])

\* The four calls of visitor() in main.cpp, in that order, have returned.
C2_Witness ==
    /\ pending = NoCall
    /\ accepted = << <<"ConcreteElement1", "ConcreteVisitor1">>,
                     <<"ConcreteElement1", "ConcreteVisitor2">>,
                     <<"ConcreteElement2", "ConcreteVisitor1">>,
                     <<"ConcreteElement2", "ConcreteVisitor2">> >>
    /\ Len(cout) = 4

\* The position of the first entry of s that is x (s holds x).
FirstAt(s, x) ==
    CHOOSE i \in 1..Len(s) : s[i] = x /\ \A j \in 1..(i - 1) : s[j] # x

\* s without its entry at position i.
Without(s, i) == [j \in 1..(Len(s) - 1) |-> IF j < i THEN s[j] ELSE s[j + 1]]

\* C3: remove(x) on a composite that holds x removes the first entry that is
\* x and no other: every other entry, later duplicates of x included, stays
\* in its order, the length drops by exactly 1, and no other composite
\* changes.
C3_RemoveFirst ==
    [][(lastOp'.op = "remove" /\ lastOp'.hit) =>
         LET c == lastOp'.c
             x == lastOp'.x
         IN /\ m_children'[c] = Without(m_children[c], FirstAt(m_children[c], x))
            /\ Len(m_children'[c]) = Len(m_children[c]) - 1
            /\ \A d \in Composites \ {c} : m_children'[d] = m_children[d]]_vars

\* remove(x) has removed an x that came before another entry and left a
\* later duplicate of x in place.
C3_Witness ==
    /\ lastOp.op = "remove" /\ lastOp.hit
    /\ \E y \in Nodes \ {lastOp.x} : m_children[lastOp.c] = <<y, lastOp.x>>

\* C4: remove(x) on a composite that does not hold x changes no child
\* sequence; the call returns like any other (the program has no error
\* state to enter).
C4_RemoveAbsent ==
    [][(lastOp'.op = "remove" /\ ~lastOp'.hit) =>
         /\ m_children' = m_children
         /\ stack' = << >>]_vars

\* remove(x) has been called on a composite with children, none of them x.
C4_Witness ==
    /\ lastOp.op = "remove" /\ ~lastOp.hit
    /\ Len(m_children[lastOp.c]) >= 2
    /\ lastOp.x \notin Range(m_children[lastOp.c])

\* C5: add(c) appends c at the end and changes nothing else, also when c is
\* already a child: the length grows by exactly 1.  A leaf held twice by the
\* composite shown is written at least twice.
C5_AddAppends ==
    /\ [][lastOp'.op = "add" =>
            LET c == lastOp'.c
                x == lastOp'.x
            IN /\ m_children'[c] = Append(m_children[c], x)
               /\ Len(m_children'[c]) = Len(m_children[c]) + 1
               /\ \A d \in Composites \ {c} : m_children'[d] = m_children[d]]_vars
    /\ [](\A c \in Composites, x \in Leaves :
            (Done /\ shown = c) =>
                Occ(out, <<kind(x), x>>) >= Occ(m_children[c], x))

\* A leaf has been added to a composite that held it already, and the
\* composite has then been shown: the leaf is written twice.
C5_Witness ==
    \E c \in Composites, x \in Leaves :
        /\ Done /\ shown = c
        /\ m_children[c] = <<x, x>>
        /\ Occ(out, <<kind(x), x>>) = 2

\* C6: the vector getChildren() returned holds the children as they were at
\* the call, whatever add/remove did to the composite since (only the
\* caller's own changes show in it), and the caller's changes to it leave
\* the children of every composite as add/remove left them.
C6_Snapshot ==
    /\ ret.of # NULL => Read(ret) = expect
    /\ m_children = kept

\* The caller holds a vector that differs from the children of the composite
\* it came from, both being non-empty.
C6_Witness ==
    /\ ret.of # NULL
    /\ Read(ret) # << >>
    /\ m_children[ret.of] # << >>
    /\ Read(ret) # m_children[ret.of]

\* The composite c, shown, holds an empty composite and then two leaves.
C7_Case(c) ==
    /\ Done /\ shown = c
    /\ Len(m_children[c]) = 3
    /\ kind(m_children[c][1]) = "Composite"
    /\ m_children[m_children[c][1]] = << >>
    /\ m_children[c][2] \in Leaves
    /\ m_children[c][3] \in Leaves

\* C7 as claimed: such a composite reports a child count of 2, then 0 for
\* the nested composite, then the two leaves.
C7_CountIsTwo ==
    \A c \in Composites :
        C7_Case(c) =>
            out = << <<"Size", 2>>, <<"Size", 0>>,
                     <<kind(m_children[c][2]), m_children[c][2]>>,
                     <<kind(m_children[c][3]), m_children[c][3]>> >>

\* C7, amended: a composite holding one empty composite and two leaves
\* reports a child count of 3 (the empty composite is a child too), then 0
\* for the nested composite, then the two leaves in insertion order.
C7_CountIsThree ==
    \A c \in Composites :
        C7_Case(c) =>
            out = << <<"Size", 3>>, <<"Size", 0>>,
                     <<kind(m_children[c][2]), m_children[c][2]>>,
                     <<kind(m_children[c][3]), m_children[c][3]>> >>

\* Such a composite, holding two different leaves, has been shown.
C7_Witness ==
    \E c \in Composites :
        /\ C7_Case(c)
        /\ m_children[c][2] # m_children[c][3]
        /\ Len(out) = 4

\* n heads a chain: a composite that is empty, or holds one composite that
\* heads a chain.
RECURSIVE IsChain(_)
IsChain(n) ==
    /\ kind(n) = "Composite"
    /\ \/ m_children[n] = << >>
       \/ Len(m_children[n]) = 1 /\ IsChain(m_children[n][1])

\* One count line per level of the chain at n: 1, ..., 1, 0.
RECURSIVE ChainCounts(_)
ChainCounts(n) ==
    IF m_children[n] = << >>
    THEN << <<"Size", 0>> >>
    ELSE << <<"Size", 1>> >> \o ChainCounts(m_children[n][1])

C9_ShowTwice ==
    (Done /\ prevRoot = shown) => out = prev

\* A composite with a nested composite has been shown twice in a row.
C9_Witness ==
    /\ Done /\ prevRoot = shown
    /\ kind(shown) = "Composite"
    /\ \E c \in Composites : c \in Range(m_children[shown])
    /\ Len(out) >= 3

\* The leaves of the subtree at n, in pre-order.
RECURSIVE LeafOrder(_)
RECURSIVE LeafOrderAll(_, _)
LeafOrder(n) ==
    IF kind(n) = "Composite" THEN LeafOrderAll(m_children[n], 1) ELSE <<n>>
LeafOrderAll(s, i) ==
    IF i > Len(s) THEN << >> ELSE LeafOrder(s[i]) \o LeafOrderAll(s, i + 1)

\* C10 as claimed: two trees of the same shape, shown one after the other,
\* give the same output whatever the identities of their nodes.
C10_ShapeOnly ==
    (Done /\ prevRoot # NULL) => out = prev

\* C10, amended: the outputs of two trees of the same shape have the same
\* length, the same kind of line at every position and the same count on
\* every count line; they differ at most in the address on a leaf line,
\* and are equal when the two trees hold the same leaf objects in the same
\* positions.  The identities of the composites never show.
C10_ShapeAndLeafIdentity ==
    (Done /\ prevRoot # NULL) =>
        /\ Len(out) = Len(prev)
        /\ \A i \in 1..Len(out) :
              /\ out[i][1] = prev[i][1]
              /\ out[i][1] = "Size" => out[i] = prev[i]
        /\ LeafOrder(shown) = LeafOrder(prevRoot) => out = prev

\* Two different composites of the same shape, each holding a leaf, have
\* been shown one after the other.
C10_Witness ==
    /\ Done /\ prevRoot # NULL /\ prevRoot # shown
    /\ kind(shown) = "Composite"
    /\ m_children[shown] # << >>
    /\ Len(out) = Len(prev)

\* The node occurrences of the subtree at n: n itself and, for a composite,
\* those of every entry of m_children (an entry held twice counts twice).
RECURSIVE Occurrences(_)
RECURSIVE OccurrencesAll(_, _)
Occurrences(n) ==
    IF kind(n) = "Composite" THEN 1 + OccurrencesAll(m_children[n], 1) ELSE 1
OccurrencesAll(s, i) ==
    IF i > Len(s) THEN 0 ELSE Occurrences(s[i]) + OccurrencesAll(s, i + 1)

\* C11: a show() call on a node of an acyclic structure returns, and so
\* does every accept(visitor) call.  show() writes one line per step, never
\* more lines than the subtree has node occurrences, and exactly that many
\* when it has returned; accept() returns after exactly one handler has
\* written its line, and writes nothing before.
C11_Terminates ==
    /\ (stack # << >>) ~> (stack = << >>)
    /\ (pending # NoCall) ~> (pending = NoCall)
    /\ [](shown # NULL => Len(out) <= Occurrences(shown))
    /\ [](Done => Len(out) = Occurrences(shown))
    /\ [][stack # << >> => Len(out') = Len(out) + 1]_vars
    /\ [][(pending # NoCall /\ pending' = NoCall) =>
             Len(cout') = Len(cout) + 1]_vars
    /\ [][pending' # NoCall => cout' = cout]_vars

\* A show() call on a composite holding a leaf and a composite that holds a
\* leaf has returned after four lines.
C11_Witness ==
    /\ Done
    /\ kind(shown) = "Composite"
    /\ Len(m_children[shown]) = 2
    /\ \E c \in Composites \ {shown} :
          /\ c \in Range(m_children[shown])
          /\ Len(m_children[c]) = 1
          /\ m_children[c][1] \in Leaves
    /\ Len(out) = 4
    /\ Occurrences(shown) = 4

\* C12: show() has no effect besides its output: no step of a show() call
\* (each writes a line) changes the child sequence of any composite, so the
\* children are after the call what they were before it.
C12_ShowFrame ==
    [][out' # << >> => m_children' = m_children]_vars

\* A show() call on a composite that holds a non-empty composite has
\* returned; all three composites' children are still in place.
C12_Witness ==
    /\ Done
    /\ kind(shown) = "Composite"
    /\ \E c \in Composites \ {shown} :
          /\ m_children[shown] = <<c>>
          /\ Len(m_children[c]) = 2
    /\ Len(out) = 4

\* C13: under every interleaving of the threads that call getInstance(),
\* the constructor runs at most once and every call returns the same
\* instance: all values returned so far are the one object m_instance points
\* to, never NULL.
C13_OneInstance ==
    /\ constructed <= 1
    /\ Cardinality(returned) <= 1
    /\ NULL \notin returned
    /\ \A t \in Threads : result[t] # NULL => result[t] = m_instance

\* Every thread has made all its calls and holds the one object that was
\* constructed.
C13_Witness ==
    /\ \A t \in Threads : pc[t] = "idle" /\ gets[t] = MaxGets
    /\ constructed = 1
    /\ returned = {m_instance}
    /\ \A t \in Threads : result[t] = m_instance

\* C14: the factory holds exactly one cat per distinct texture asked for,
\* and getCat returns the same object for the same texture: no two cats of
\* m_cats have the same texture or the same address, every call returned a
\* cat of m_cats with the texture asked, and two calls returned the same
\* object exactly when they asked for the same texture.
C14_OneCatPerTexture ==
    /\ \A i, j \in 1..Len(m_cats) :
          i # j => /\ m_cats[i].m_texture # m_cats[j].m_texture
                   /\ m_cats[i].addr # m_cats[j].addr
    /\ Len(m_cats) = Cardinality({handed[i][1] : i \in 1..Len(handed)})
    /\ \A i \in 1..Len(handed) :
          \E k \in 1..Len(m_cats) :
              /\ m_cats[k].addr = handed[i][2]
              /\ m_cats[k].m_texture = handed[i][1]
    /\ \A i, j \in 1..Len(handed) :
          (handed[i][1] = handed[j][1]) <=> (handed[i][2] = handed[j][2])

\* The calls of flyweight() in main.cpp: "black" twice, the same object
\* both times, then "white", another object.
C14_Witness ==
    /\ Len(handed) = 3
    /\ handed[1][1] = "black" /\ handed[2][1] = "black"
    /\ handed[3][1] = "white"
    /\ handed[1][2] = handed[2][2]
    /\ handed[3][2] # handed[1][2]
    /\ Len(m_cats) = 2

\* The data saved by the backups of the calls l that no undo has taken yet,
\* the most recent last: a backup adds its data, an undo takes the most
\* recent one away.
RECURSIVE NotUndone(_)
NotUndone(l) ==
    IF l = << >> THEN << >>
    ELSE LET before == NotUndone(SubSeq(l, 1, Len(l) - 1))
             call == l[Len(l)]
         IN CASE call[1] = "backup" -> Append(before, call[2])
              [] call[1] = "undo" -> SubSeq(before, 1, Len(before) - 1)
              [] call[1] = "play" -> before

\* The originator's data after the calls l: 0 at construction, one more
\* after a play, the data restored after an undo.
RECURSIVE DataAfter(_)
DataAfter(l) ==
    IF l = << >> THEN 0
    ELSE LET call == l[Len(l)]
         IN CASE call[1] = "play" -> DataAfter(SubSeq(l, 1, Len(l) - 1)) + 1
              [] call[1] = "backup" -> DataAfter(SubSeq(l, 1, Len(l) - 1))
              [] call[1] = "undo" -> call[2]

\* C15: with undo called on a non-empty history only, every undo restored
\* the data saved by the most recent backup not yet undone, whatever play()
\* calls came in between, and took that memento off the history: the history
\* holds the data of the backups not yet undone, oldest first, and the
\* originator's data is what the calls made of it.
C15_UndoIsLifo ==
    /\ \A k \in 1..Len(gameLog) :
          gameLog[k][1] = "undo" =>
              LET left == NotUndone(SubSeq(gameLog, 1, k - 1))
              IN left # << >> /\ gameLog[k][2] = left[Len(left)]
    /\ \A k \in 1..Len(gameLog) :
          gameLog[k][1] = "backup" =>
              gameLog[k][2] = DataAfter(SubSeq(gameLog, 1, k - 1))
    /\ [i \in 1..Len(m_history) |-> GameMemento_getData(m_history[i])]
           = NotUndone(gameLog)
    /\ game_m_data = DataAfter(gameLog)

\* Two backups with a play in between, a play, and an undo that restored
\* the data of the second backup, the first being still in the history.
C15_Witness ==
    /\ Len(gameLog) = 5
    /\ gameLog[1] = <<"backup", 0>>
    /\ gameLog[2] = <<"play", 0>>
    /\ gameLog[3] = <<"backup", 1>>
    /\ gameLog[4] = <<"play", 1>>
    /\ gameLog[5] = <<"undo", 1>>
    /\ game_m_data = 1
    /\ m_history = <<GameMemento(0)>>

\* C16: the loop `while hasMore() getNext()` over a collection of n
\* elements ends, after exactly n getNext() calls that returned the elements
\* in index order, each once; hasMore() is true exactly when fewer than n
\* elements have been returned.
C16_IteratesInOrder ==
    /\ (iterPc # "none") ~> (iterPc = "done")
    /\ [](iterPc # "none" =>
            /\ Len(iterOut) <= Len(coll_m_data)
            /\ iterOut = SubSeq(coll_m_data, 1, Len(iterOut))
            /\ ConcreteIterator_hasMore <=> Len(iterOut) < Len(coll_m_data)
            /\ iterPc = "body" => ConcreteIterator_hasMore
            /\ iterPc = "done" => iterOut = coll_m_data)

\* The loop over a collection of three elements, with a 0 and a value held
\* twice, has ended after three calls.
C16_Witness ==
    /\ iterPc = "done"
    /\ coll_m_data = <<2, 0, 2>>
    /\ iterOut = <<2, 0, 2>>
    /\ m_i = 3

\* C17: after any subscribe/unsubscribe calls, notify(i) calls update(i)
\* once per subscription still present, in subscription order, and on no
\* one else, and leaves the subscriptions alone; unsubscribe(s) removes the
\* first subscription of s and no other, and changes nothing when s is not
\* subscribed.
C17_NotifyAndUnsubscribe ==
    /\ [](pubCall.op = "notify" =>
            /\ Len(pubOut) = Len(m_subscribers)
            /\ \A k \in 1..Len(pubOut) :
                  /\ pubOut[k].on = m_subscribers[k]
                  /\ pubOut[k].line[2] = pubCall.arg
            /\ \A s \in Subscribers :
                  Cardinality({k \in 1..Len(pubOut) : pubOut[k].on = s})
                      = Occ(m_subscribers, s))
    /\ [][pubCall'.op = "notify" => m_subscribers' = m_subscribers]_vars
    /\ [][(pubCall'.op = "unsubscribe" /\ pubCall'.hit) =>
             LET first == FirstAt(m_subscribers, pubCall'.arg)
             IN m_subscribers' = Without(m_subscribers, first)]_vars
    /\ [][(pubCall'.op = "unsubscribe" /\ ~pubCall'.hit) =>
             m_subscribers' = m_subscribers]_vars

\* A notify(1) has reached two different subscribers, in subscription
\* order.
C17_Witness ==
    \E s \in Subscribers, r \in Subscribers :
        /\ s # r
        /\ pubCall = [op |-> "notify", arg |-> 1, hit |-> FALSE]
        /\ m_subscribers = <<r, s>>
        /\ pubOut = <<update(r, 1), update(s, 1)>>

\* What C18 says of the play/lock/next call made last: it makes at most one
\* state switch and does not end the process; when it has returned, the
\* current state is the one the call is named after and the call has
\* written exactly one message, that of this state; made in the state it is
\* named after, it has left the current state as it was.
LastCallDecides ==
    playerCall.op # "none" =>
        /\ playerPc # "crashed"
        /\ playerCall.switches <= 1
        /\ playerPc = "idle" =>
              /\ player_m_state.kind = KindAt(SlotOf(playerCall.op))
              /\ playerCall.msgs = <<Message(playerCall.op)>>
              /\ playerCall.from.kind = KindAt(SlotOf(playerCall.op)) =>
                    /\ player_m_state = playerCall.from
                    /\ playerCall.switches = 0

\* C18 as claimed: for a Player with a current state set, after any
\* sequence of play/lock/next calls the current state matches the last
\* call, each call ends after at most one switch with exactly one message,
\* and a call matching the current state leaves it unchanged.
C18_LastCallDecides == LastCallDecides

\* C18 holds of the players whose three slots read as null pointers when
\* the constructor returns.
C18_OnNullSlots ==
    (\A i \in Slots : m_states0[i] = nullptr) => LastCallDecides

\* A call made in a state of another kind found a slot that was never
\* written holding a value that is not null, and made that value the
\* current state.
C18_Witness ==
    /\ playerCall.op # "none"
    /\ playerCall.from.kind \in {"PlayingState", "LockState", "ReadyState"}
    /\ playerCall.switches = 1
    /\ m_states0[SlotOf(playerCall.op)] = Wild
    /\ player_m_state = Wild

\* The lines the handlers hs write, in order: a ConcreteHandler1 writes
\* "handler1", a ConcreteHandler2 "handler2", a BaseHandler nothing.
RECURSIVE LinesOf(_)
LinesOf(hs) ==
    IF hs = << >> THEN << >>
    ELSE (CASE HandlerObjects[hs[1]] = "BaseHandler" -> << >>
            [] HandlerObjects[hs[1]] = "ConcreteHandler1" -> <<"handler1">>
            [] HandlerObjects[hs[1]] = "ConcreteHandler2" -> <<"handler2">>)
         \o LinesOf(SubSeq(hs, 2, Len(hs)))

\* C19: handle(i) on the head of an acyclic chain returns; the request
\* passes the handlers of the chain in link order, each handling it once
\* (a concrete handler writes its line before it forwards), and the call
\* ends at the handler whose next is null: a handler without a next
\* forwards to nobody.
C19_PassesDownTheChain ==
    /\ (handling # NULL) ~> (handling = NULL)
    /\ [](request.head # NULL =>
            /\ IsPrefix(passed, Links(request.head))
            /\ \A h \in Handlers : Occ(passed, h) <= 1
            /\ chainOut = LinesOf(passed)
            /\ handling # NULL =>
                  handling = Links(request.head)[Len(passed) + 1]
            /\ handling = NULL =>
                  /\ passed = Links(request.head)
                  /\ m_next[passed[Len(passed)]] = NULL)

\* The chain of chain_of_responsibility() in main.cpp, a BaseHandler, a
\* ConcreteHandler1 and a ConcreteHandler2, has handled a request.
C19_Witness ==
    /\ request.head = 1
    /\ handling = NULL
    /\ passed = <<1, 2, 3>>
    /\ m_next[3] = NULL
    /\ chainOut = <<"handler1", "handler2">>

\* The structure has a cycle: a composite is reached from its own children.
Cyclic ==
    \E c \in Composites :
        c \in ReachN(Range(m_children[c]), NumComposites)

\* C20: add() makes no cycle check.  Every add(x) on a composite c, also
\* with x = c or x an ancestor of c, appends x to the children of c as any
\* other add does, after which the structure has a cycle: add keeps no
\* invariant of acyclicity.
C20_AddMakesCycles ==
    [][lastOp'.op = "add" =>
            LET c == lastOp'.c
                x == lastOp'.x
            IN /\ m_children'[c] = Append(m_children[c], x)
               /\ \A d \in Composites \ {c} : m_children'[d] = m_children[d]
               /\ c \in Reach(x) => Cyclic']_vars

\* A composite holds itself and a second composite that holds the first:
\* self-containment and mutual containment, both built by add.
C20_Witness ==
    \E c \in Composites, d \in Composites :
        /\ c # d
        /\ lastOp.op = "add"
        /\ m_children[c] = <<c, d>>
        /\ m_children[d] = <<c>>
        /\ Cyclic
\* C21: Composite::add tests nothing: add(null) appends the null entry, and
\* the entry counts as a child in the "Size" line; a show() call that comes
\* to the entry dereferences it.  No show() call on a composite with a null
\* entry below it returns without that fault, no line is written for the
\* entry, and the fault happens at null entries only.
NullBelow(n) == NULL \in Reach(n)

C21_AddAndShowNull ==
    [][/\ (m_children' # m_children /\ lastOp'.x = NULL) =>
            /\ m_children'[lastOp'.c] = Append(m_children[lastOp'.c], NULL)
            /\ TotalChildren' = TotalChildren + 1
       /\ (shown' \in Composites /\ out' # << >>) =>
            out'[1] = <<"Size", Len(m_children'[shown'])>>
       /\ (shown' # NULL /\ stack' = << >> /\ NullBelow(shown')) =>
            fault' = "null dereference"
       /\ fault' = "null dereference" =>
            /\ NullBelow(shown')
            /\ (fault = "none" => out' = out)
       /\ died' => fault' = "null dereference" /\ stack' # << >>]_vars

C21_Witness ==
    /\ shown \in Composites
    /\ lastOp = NoOp
    /\ NULL \in Range(m_children[shown])
    /\ out # << >>
    /\ out[1] = <<"Size", Len(m_children[shown])>>
    /\ fault = "null dereference"

\* C22: a Director without a builder calls nothing on a builder:
\* createProduct and createProduct2 write "without builder" and change no
\* product, getProduct returns a product with three empty parts.  With a
\* builder set, createProduct calls buildPartA, buildPartB, buildPartC in
\* that order, on that builder alone, and getProduct returns the product
\* that builder holds.
Built(b, a0, b1, c2) ==
    [m_partA |-> b \o a0, m_partB |-> b \o b1, m_partC |-> b \o c2]

C22_DirectorAndBuilder ==
    [][/\ (m_builder = NoBuilder /\ directorCall' # "setBuilder") =>
            /\ builderCalls' = << >>
            /\ m_product' = m_product
       /\ (m_builder = NoBuilder
              /\ directorCall' \in {"createProduct", "createProduct2"}) =>
            /\ directorOut' = <<"without builder">>
            /\ product' = product
       /\ (m_builder = NoBuilder /\ directorCall' = "getProduct") =>
            product' = [m_partA |-> "", m_partB |-> "", m_partC |-> ""]
       /\ (m_builder # NoBuilder /\ directorCall' = "createProduct") =>
            /\ builderCalls' = << <<"A", "0">>, <<"B", "1">>, <<"C", "2">> >>
            /\ m_product' = [m_product EXCEPT
                               ![m_builder] = Built(m_builder, "0", "1", "2")]
            /\ directorOut' = << >>
       /\ (m_builder # NoBuilder /\ directorCall' = "getProduct") =>
            /\ product' = m_product[m_builder]
            /\ m_product' = m_product
            /\ directorOut' = << >>]_vars

C22_Witness ==
    /\ m_builder = "B"
    /\ directorCall = "getProduct"
    /\ m_product["A"] = [m_partA |-> "A0", m_partB |-> "A1", m_partC |-> "A2"]
    /\ product = [m_partA |-> "B0", m_partB |-> "B1", m_partC |-> "B2"]

\* C23: a show() call on a structure with a cycle below the node shown
\* never returns to its caller.  At every point of the call a Composite::show
\* is in progress whose loop has another turn to make, every composite
\* entered has written its count line, and every turn writes one more line.
CycleBelow(n) ==
    \E c \in Reach(n) \cap Composites :
        c \in ReachN(Range(m_children[c]), NumComposites)

C23_NeverReturns ==
    [][(shown' # NULL /\ CycleBelow(shown')) =>
          /\ stack' # << >>
          /\ stack'[Len(stack')].it <=
                 Len(m_children'[stack'[Len(stack')].node])
          /\ \A i \in 1..Len(stack') :
                 Composite_size(stack'[i].node) \in Range(out')
          /\ stack # << >> => Len(out') = Len(out) + 1]_vars

C23_Witness ==
    /\ shown # NULL
    /\ CycleBelow(shown)
    /\ Len(stack) = MaxDepth
    /\ \E i \in 1..(Len(stack) - 1) : stack[i].node = stack[Len(stack)].node
    /\ \E i, j \in 1..Len(out) : i < j /\ out[i] = out[j] /\ out[i][1] = "Size"

\* C24 as claimed: from the construction of a Player on, every slot i of
\* m_states is null or holds a State object of the kind of the slot
\* (0 PlayingState, 1 LockState, 2 ReadyState).
SlotsHoldTheirKind ==
    \A i \in Slots : m_states[i] = nullptr \/ m_states[i].kind = KindAt(i)

C24_SlotsHoldTheirKind == playerPc # "none" => SlotsHoldTheirKind

\* C24 holds of the players whose three slots read as null pointers when
\* the constructor returns: the slots hold their kind, and a slot that was
\* filled keeps its object.
C24_OnNullSlots ==
    [][(\A i \in Slots : m_states0'[i] = nullptr) =>
          /\ SlotsHoldTheirKind'
          /\ \A i \in Slots :
                (playerPc # "none" /\ m_states[i] # nullptr
                   /\ player_m_state # nullptr) =>
                m_states'[i] = m_states[i]]_vars

\* A Player just constructed, no call made on it yet, with a slot that holds
\* neither a null pointer nor a State object.
C24_Witness ==
    /\ playerPc = "idle"
    /\ player_m_state = nullptr
    /\ playerCall = NoPlayerCall
    /\ stateObjects = 0
    /\ \E i \in Slots : m_states[i] = Wild

====
